---- MODULE Spec2Model ----
(***************************************************************************)
(* A model of binonly_snapshot (src/src/main.rs): the classification of    *)
(* the argument string, the rendering of the Dockerfile, the parsing of    *)
(* --input-file-size, and the rotation of the output directory.            *)
(*                                                                         *)
(* Text is a sequence of units. A unit is a one-character string, or a     *)
(* chunk of fixed text of the program (a piece of the DOCKERFILE template, *)
(* the head of a format! string), or one of the five placeholder markers   *)
(* of the template, each marker being one unit.                            *)
(* An Option is a sequence of length at most one: None is <<>>, Some(x)    *)
(* is <<x>>.                                                               *)
(***************************************************************************)
EXTENDS Integers, Sequences, FiniteSets, TLC

VARIABLES
    pc,               \* position in main
    binary,           \* args.binary
    function,         \* args.function (Option)
    image_type,       \* args.image_type (Option)
    libfuzzer,        \* args.libfuzzer
    packages,         \* args.packages (Option of a list of texts)
    size_arg,         \* the raw text given to --input-file-size (Option)
    input_file_size,  \* args.input_file_size (Option of a u64)
    curr_arguments,   \* args.arguments (Option)
    fs,               \* the absolute paths that exist on the file system
    todo,             \* the tokens of the split the loop has not visited yet
    arguments,        \* main's arguments vector
    files,            \* main's files vector
    has_file,         \* main's has_file flag
    truncate,         \* main's truncate string
    dockerfile,       \* main's dockerfile string
    written,          \* the content of Dockerfile.<binary_name> on disk (Option)
    outdir,           \* snapchange_<name>: the id of the directory there, or 0
    dense,            \* snapchange_<name>.old1 .. .old<dense> exist from the start
    sparse,           \* the other existing .old<n>: n |-> the id of the directory
    new_dir,          \* main's new_dir, as the n of .old<n> (0: the bare ".old")
    run               \* the number of the current run of the program

vars == <<pc, binary, function, image_type, libfuzzer, packages, size_arg,
          input_file_size, curr_arguments, fs, todo, arguments, files, has_file,
          truncate, dockerfile, written, outdir, dense, sparse, new_dir, run>>

None == <<>>

Some(x) == <<x>>

unwrap(o) == o[1]

(***************************************************************************)
(* Text                                                                    *)
(***************************************************************************)

RECURSIVE Concat(_)
\* the concatenation of a list of texts
Concat(ts) == IF ts = <<>> THEN <<>> ELSE Head(ts) \o Concat(Tail(ts))

RECURSIVE join(_, _)
\* [String]::join(sep)
join(ts, sep) ==
    IF ts = <<>> THEN <<>>
    ELSE IF Len(ts) = 1 THEN ts[1]
    ELSE ts[1] \o sep \o join(Tail(ts), sep)

RECURSIVE split_whitespace(_, _)
\* split as str::split_whitespace would: the empty pieces are dropped
split_whitespace(s, c) ==
    IF \A i \in 1..Len(s) : s[i] # c THEN (IF s = <<>> THEN <<>> ELSE <<s>>)
    ELSE LET i == CHOOSE k \in 1..Len(s) : s[k] = c /\ \A j \in 1..(k - 1) : s[j] # c
         IN  (IF i = 1 THEN <<>> ELSE <<SubSeq(s, 1, i - 1)>>)
             \o split_whitespace(SubSeq(s, i + 1, Len(s)), c)

RECURSIVE split(_, _)
\* str::split(c): the pieces between the occurrences of c, empty pieces kept;
\* a text without c is one piece, the empty text too
split(s, c) ==
    IF \A i \in 1..Len(s) : s[i] # c THEN <<s>>
    ELSE LET i == CHOOSE k \in 1..Len(s) : s[k] = c /\ \A j \in 1..(k - 1) : s[j] # c
         IN  <<SubSeq(s, 1, i - 1)>> \o split(SubSeq(s, i + 1, Len(s)), c)

RECURSIVE replace(_, _, _)
\* str::replace(from, to), from being one unit: every occurrence, left to
\* right, the inserted text not scanned again
replace(s, from, to) ==
    IF s = <<>> THEN <<>>
    ELSE (IF Head(s) = from THEN to ELSE <<Head(s)>>) \o replace(Tail(s), from, to)

\* str::starts_with
starts_with(s, p) == Len(s) >= Len(p) /\ SubSeq(s, 1, Len(p)) = p

(***************************************************************************)
(* Paths. An absolute path is the list of its components below the root.   *)
(* The arguments drawn here neither start with "//" nor end with a "/"     *)
(* after a component, the two cases std::path::absolute treats apart.      *)
(***************************************************************************)

\* the components of a path text: "." and empty components dropped, ".." kept
components(p) == SelectSeq(split(p, "/"), LAMBDA c : c # <<>> /\ c # <<".">>)

\* the current working directory of the process
cwd == << <<"c">> >>

\* std::path::absolute: an error for the empty path, else the path itself
\* when it starts at the root and the path below the working directory if not
absolute(p) ==
    IF p = <<>> THEN None
    ELSE IF p[1] = "/" THEN Some(components(p))
    ELSE Some(cwd \o components(p))

RECURSIVE resolve(_, _)
\* the directory walk of the kernel: ".." steps up, and stays at the root
resolve(done, rest) ==
    IF rest = <<>> THEN done
    ELSE IF Head(rest) = <<".", ".">>
         THEN resolve(IF done = <<>> THEN <<>> ELSE SubSeq(done, 1, Len(done) - 1),
                      Tail(rest))
         ELSE resolve(Append(done, Head(rest)), Tail(rest))

\* Path::exists: the path, walked, is an entry of the file system or a
\* directory above one
exists(path) ==
    LET r == resolve(<<>>, path)
    IN  \E e \in fs : Len(e) >= Len(r) /\ SubSeq(e, 1, Len(r)) = r

\* Path::file_name: the last component, unless there is none or it is ".."
file_name(path) ==
    IF path = <<>> \/ path[Len(path)] = <<".", ".">> THEN None
    ELSE Some(path[Len(path)])

\* the text of a path
display(path) ==
    IF path = <<>> THEN <<"/">>
    ELSE Concat([i \in 1..Len(path) |-> <<"/">> \o path[i]])

\* {:?} of a path: the text in double quotes, quotes and backslashes escaped
debug(path) ==
    LET t == display(path)
    IN  <<"\"">>
        \o Concat([i \in 1..Len(t) |->
                     IF t[i] \in {"\"", "\\"} THEN <<"\\", t[i]>> ELSE <<t[i]>>])
        \o <<"\"">>

(***************************************************************************)
(* u64. A number is the list of its digits in base 1024, the least         *)
(* significant first, without leading zero digits: 0 is <<>>, and a number *)
(* fits 64 bits when it has at most six digits, or seven with the last     *)
(* below 16 (2^64 = 16 * 1024^6).                                          *)
(***************************************************************************)

RECURSIVE norm(_)
\* a digit list without its leading zero digits
norm(a) ==
    IF a # <<>> /\ a[Len(a)] = 0 THEN norm(SubSeq(a, 1, Len(a) - 1)) ELSE a

RECURSIVE from_int(_)
\* the number of a small integer
from_int(n) == IF n = 0 THEN <<>> ELSE <<n % 1024>> \o from_int(n \div 1024)

RECURSIVE add_carry(_, _, _)
\* a + b + carry, digit by digit
add_carry(a, b, carry) ==
    IF a = <<>> /\ b = <<>> THEN (IF carry = 0 THEN <<>> ELSE <<carry>>)
    ELSE LET x == IF a = <<>> THEN 0 ELSE Head(a)
             y == IF b = <<>> THEN 0 ELSE Head(b)
             t == x + y + carry
         IN  <<t % 1024>>
             \o add_carry(IF a = <<>> THEN <<>> ELSE Tail(a),
                          IF b = <<>> THEN <<>> ELSE Tail(b), t \div 1024)

RECURSIVE mul_digit(_, _, _)
\* a * m + carry, for one digit m
mul_digit(a, m, carry) ==
    IF a = <<>> THEN (IF carry = 0 THEN <<>> ELSE <<carry>>)
    ELSE LET t == Head(a) * m + carry
         IN  <<t % 1024>> \o mul_digit(Tail(a), m, t \div 1024)

RECURSIVE mul(_, _)
\* a * b
mul(a, b) ==
    IF b = <<>> THEN <<>>
    ELSE norm(add_carry(mul_digit(a, Head(b), 0), <<0>> \o mul(a, Tail(b)), 0))

\* the value is below 2^64
fits_u64(a) == Len(a) <= 6 \/ (Len(a) = 7 /\ a[7] < 16)

\* the product modulo 2^64, as u64::wrapping_mul gives it
wrapping_mul(a, b) ==
    LET p == mul(a, b)
    IN  Some(IF fits_u64(p) THEN p
             ELSE norm([i \in 1..7 |-> IF i = 7 THEN p[7] % 16 ELSE p[i]]))

\* u64::checked_mul: the product when it fits, None when it does not
checked_mul(a, b) == LET p == mul(a, b) IN IF fits_u64(p) THEN Some(p) ELSE None

\* u64::checked_add
checked_add(a, b) ==
    LET p == norm(add_carry(a, b, 0)) IN IF fits_u64(p) THEN Some(p) ELSE None

RECURSIVE div10(_, _)
\* the digits of a, the most significant first, divided by ten: <<quotient
\* digits (most significant first), remainder>>
div10(msf, rem) ==
    IF msf = <<>> THEN <<<<>>, rem>>
    ELSE LET t == rem * 1024 + Head(msf)
             r == div10(Tail(msf), t % 10)
         IN  <<<<t \div 10>> \o r[1], r[2]>>

\* a list reversed
reverse(s) == [i \in 1..Len(s) |-> s[Len(s) + 1 - i]]

\* the ten decimal digits
DIGITS == <<"0", "1", "2", "3", "4", "5", "6", "7", "8", "9">>

\* char::to_digit(10)
to_digit(c) ==
    IF \E d \in 1..10 : DIGITS[d] = c
    THEN Some((CHOOSE d \in 1..10 : DIGITS[d] = c) - 1)
    ELSE None

RECURSIVE to_string(_)
\* {} of a u64: its decimal digits
to_string(a) ==
    IF a = <<>> THEN <<"0">>
    ELSE LET r == div10(reverse(a), 0)
             q == norm(reverse(r[1]))
         IN  (IF q = <<>> THEN <<>> ELSE to_string(q)) \o <<DIGITS[r[2] + 1]>>

RECURSIVE parse_digits(_, _)
\* the digit loop of str::parse::<u64>: result * 10 + digit, both checked
parse_digits(s, acc) ==
    IF s = <<>> THEN [ok |-> TRUE, val |-> acc]
    ELSE LET d == to_digit(Head(s))
         IN  IF d = None THEN [ok |-> FALSE, err |-> "InvalidDigit"]
             ELSE LET m == checked_mul(acc, from_int(10))
                  IN  IF m = None THEN [ok |-> FALSE, err |-> "PosOverflow"]
                      ELSE LET n == checked_add(unwrap(m), from_int(unwrap(d)))
                           IN  IF n = None THEN [ok |-> FALSE, err |-> "PosOverflow"]
                               ELSE parse_digits(Tail(s), unwrap(n))

\* str::parse::<u64>: an error for the empty text and for a lone sign; a
\* leading "+" is skipped, a "-" is no digit
parse_u64(s) ==
    IF s = <<>> THEN [ok |-> FALSE, err |-> "Empty"]
    ELSE IF s = <<"+">> \/ s = <<"-">> THEN [ok |-> FALSE, err |-> "InvalidDigit"]
    ELSE parse_digits(IF s[1] = "+" THEN Tail(s) ELSE s, <<>>)

\* str::ends_with of one character
ends_with(s, c) == s # <<>> /\ s[Len(s)] = c

\* the unit the last character of the input names
size_format(input) ==
    IF ends_with(input, "k") \/ ends_with(input, "K") THEN Some("Kilobyte")
    ELSE IF ends_with(input, "m") \/ ends_with(input, "M") THEN Some("Megabyte")
    ELSE IF ends_with(input, "g") \/ ends_with(input, "G") THEN Some("Gigabyte")
    ELSE None

\* size_factor with the decimal factors
size_factor_decimal(format) ==
    IF format = Some("Kilobyte") THEN from_int(1000)
    ELSE IF format = Some("Megabyte") THEN from_int(1000 * 1000)
    ELSE IF format = Some("Gigabyte") THEN from_int(1000 * 1000 * 1000)
    ELSE from_int(1)

\* the factor of a unit
size_factor(format) ==
    IF format = Some("Kilobyte") THEN from_int(1024)
    ELSE IF format = Some("Megabyte") THEN from_int(1024 * 1024)
    ELSE IF format = Some("Gigabyte") THEN from_int(1024 * 1024 * 1024)
    ELSE from_int(1)

\* parse_size: [kind |-> "ok", val |-> n], [kind |-> "err", err |-> e] when
\* the number does not parse, [kind |-> "panic"] when the product overflows
parse_size(input) ==
    LET format == size_format(input)
        digits == IF format # None THEN SubSeq(input, 1, Len(input) - 1) ELSE input
        num    == parse_u64(digits)
    IN  IF ~num.ok THEN [kind |-> "err", err |-> num.err]
        ELSE IF format = None THEN [kind |-> "ok", val |-> num.val]
        ELSE LET p == checked_mul(num.val, size_factor(format))
             IN  IF p = None THEN [kind |-> "panic"]
                 ELSE [kind |-> "ok", val |-> unwrap(p)]

(***************************************************************************)
(* The fixed texts of main                                                 *)
(***************************************************************************)

\* the template, its five placeholder markers each one unit
DOCKERFILE ==
    << "\n###################################################\n#### Ubuntu root FS\nFROM ubuntu:jammy as base\nRUN apt-get update -q \\\n  && apt-get install -q -y build-essential clang gdb python3 ",
       "$PACKAGES$",
       " \\\n  && apt-get clean -y \\\n  && rm -rf /var/lib/apt/lists/*\n\n# Copy binary into the root\nCOPY ",
       "$BINARY$",
       " /opt/\n",
       "$TRUNCATE$",
       "\n",
       "$FILES$",
       "\n\n###################################################\nFROM ctfhacker/snapchange_snapshot\n\nCOPY --from=base / \"$SNAPSHOT_INPUT\"\n\nENV SNAPSHOT_ENTRYPOINT=/opt/",
       "$BINARYNAME$",
       "\n" >>

TRUNCATE_FILE_NAME == <<"/opt/truncated_input_file">>

\* the marker of the input file, "@@"
INPUT_MARKER == <<"@", "@">>

\* the prefix of the arguments that are never staged, "/dev"
DEV_PREFIX == <<"/", "d", "e", "v">>

\* {:?} of an ImgType: the name of the variant
img_debug(t) ==
    IF t = "Disk" THEN <<"D", "i", "s", "k">>
    ELSE <<"I", "n", "i", "t", "r", "a", "m", "f", "s">>

\* str::to_lowercase, over the letters of the variant names
to_lowercase(s) ==
    [i \in 1..Len(s) |-> IF s[i] = "D" THEN "d" ELSE IF s[i] = "I" THEN "i" ELSE s[i]]

(***************************************************************************)
(* main, up to the writing of the Dockerfile                               *)
(***************************************************************************)

\* the file system and the directories of earlier runs, which this part of
\* main leaves alone
fixed == <<binary, function, image_type, libfuzzer, packages, size_arg,
           curr_arguments, fs, outdir, dense, sparse, new_dir, run>>

\* CommandLineArgs::parse and the name of the binary: the size text goes
\* through parse_size, an error of which ends the process, as does a binary
\* path without a file name
ParseArgs ==
    /\ pc = "parse"
    /\ LET r == IF size_arg = None THEN [kind |-> "none"] ELSE parse_size(unwrap(size_arg))
       IN  IF r.kind = "panic" THEN
               /\ pc' = "panicked"
               /\ UNCHANGED <<input_file_size, todo>>
           ELSE IF r.kind = "err" THEN
               /\ pc' = "usage_error"
               /\ UNCHANGED <<input_file_size, todo>>
           ELSE IF file_name(components(binary)) = None THEN
               /\ pc' = "panicked"
               /\ input_file_size' = (IF r.kind = "ok" THEN Some(r.val) ELSE None)
               /\ UNCHANGED todo
           ELSE
               /\ pc' = "classify"
               /\ input_file_size' = (IF r.kind = "ok" THEN Some(r.val) ELSE None)
               /\ todo' = (IF curr_arguments = None THEN <<>>
                           ELSE split(unwrap(curr_arguments), " "))
    /\ UNCHANGED <<arguments, files, has_file, truncate, dockerfile, written>>
    /\ UNCHANGED fixed

\* is_staged without the test for /dev
is_staged_with_devices(argument) ==
    LET test_file == absolute(argument)
    IN  /\ test_file # None
        /\ exists(unwrap(test_file))

\* the argument names something to stage: it resolves, what it resolves to
\* exists, and it does not start with "/dev"
is_staged(argument) ==
    LET test_file == absolute(argument)
    IN  /\ test_file # None
        /\ exists(unwrap(test_file))
        /\ ~starts_with(argument, DEV_PREFIX)

\* classify with the two tests in the other order
classify_marker_first(argument) ==
    IF argument = INPUT_MARKER THEN "PlaceholderInputFile"
    ELSE IF is_staged(argument) THEN "StagedFileReference"
    ELSE "Literal"

\* what the loop makes of an argument: the test for a file comes first, the
\* test for the marker second
classify(argument) ==
    IF is_staged(argument) THEN "StagedFileReference"
    ELSE IF argument = INPUT_MARKER THEN "PlaceholderInputFile"
    ELSE "Literal"

\* one turn of the loop over the arguments; the copy instruction is pushed
\* before the file name is unwrapped
ClassifyArgument ==
    /\ pc = "classify"
    /\ todo # <<>>
    /\ LET argument == Head(todo)
           kind     == classify(argument)
       IN  IF kind = "StagedFileReference" THEN
               LET test_file == unwrap(absolute(argument))
                   filename  == file_name(test_file)
               IN  /\ files' = Append(files, <<"COPY ">> \o debug(test_file) \o <<" /opt">>)
                   /\ IF filename = None THEN
                          /\ pc' = "panicked"
                          /\ UNCHANGED <<arguments, todo>>
                      ELSE
                          /\ arguments' = Append(arguments, <<"/opt/">> \o unwrap(filename))
                          /\ todo' = Tail(todo)
                          /\ UNCHANGED pc
                   /\ UNCHANGED has_file
           ELSE IF kind = "PlaceholderInputFile" THEN
               /\ arguments' = Append(arguments, TRUNCATE_FILE_NAME)
               /\ has_file' = TRUE
               /\ todo' = Tail(todo)
               /\ UNCHANGED <<pc, files>>
           ELSE
               /\ arguments' = Append(arguments, argument)
               /\ todo' = Tail(todo)
               /\ UNCHANGED <<pc, files, has_file>>
    /\ UNCHANGED <<input_file_size, truncate, dockerfile, written>>
    /\ UNCHANGED fixed

\* truncate_line without the test of has_file
truncate_line_always ==
    LET size == IF input_file_size = None THEN from_int(32 * 1024)
                ELSE unwrap(input_file_size)
    IN  <<"RUN truncate -s ">> \o to_string(size) \o <<" ">> \o TRUNCATE_FILE_NAME

\* the truncate line, when an argument was the marker
truncate_line ==
    IF has_file
    THEN LET size == IF input_file_size = None THEN from_int(32 * 1024)
                     ELSE unwrap(input_file_size)
         IN  <<"RUN truncate -s ">> \o to_string(size) \o <<" ">> \o TRUNCATE_FILE_NAME
    ELSE <<>>

MakeTruncate ==
    /\ pc = "classify"
    /\ todo = <<>>
    /\ truncate' = truncate_line
    /\ pc' = "render"
    /\ UNCHANGED <<input_file_size, todo, arguments, files, has_file, dockerfile, written>>
    /\ UNCHANGED fixed

\* the file name of the binary
binary_name == unwrap(file_name(components(binary)))

\* the five replacements, in the order of the code
render(template, bin, name, pkgs, trunc, copies) ==
    replace(replace(replace(replace(replace(template,
        "$BINARY$", bin),
        "$BINARYNAME$", name),
        "$PACKAGES$", pkgs),
        "$TRUNCATE$", trunc),
        "$FILES$", copies)

RenderDockerfile ==
    /\ pc = "render"
    /\ dockerfile' = render(DOCKERFILE, binary, binary_name,
                            join(IF packages = None THEN <<>> ELSE unwrap(packages), <<" ">>),
                            truncate, join(files, <<"\n">>))
    /\ pc' = "function"
    /\ UNCHANGED <<input_file_size, todo, arguments, files, has_file, truncate, written>>
    /\ UNCHANGED fixed

\* break_function with the flag asked before the option
break_function_flag_first ==
    IF libfuzzer THEN <<"LLVMFuzzerTestOneInput">>
    ELSE IF function # None THEN unwrap(function)
    ELSE <<"main">>

\* the function to break at
break_function ==
    IF function # None THEN unwrap(function)
    ELSE IF libfuzzer THEN <<"LLVMFuzzerTestOneInput">>
    ELSE <<"main">>

AppendFunction ==
    /\ pc = "function"
    /\ dockerfile' = dockerfile \o <<"ENV SNAPSHOT_FUNCTION=">> \o break_function \o <<"\n">>
    /\ pc' = "imgtype"
    /\ UNCHANGED <<input_file_size, todo, arguments, files, has_file, truncate, written>>
    /\ UNCHANGED fixed

\* the lower-cased name of the image type, Initramfs when none is given
imgtype ==
    to_lowercase(img_debug(IF image_type = None THEN "Initramfs" ELSE unwrap(image_type)))

AppendImgType ==
    /\ pc = "imgtype"
    /\ dockerfile' = dockerfile \o <<"ENV SNAPSHOT_IMGTYPE=">> \o imgtype \o <<"\n">>
    /\ pc' = "arguments"
    /\ UNCHANGED <<input_file_size, todo, arguments, files, has_file, truncate, written>>
    /\ UNCHANGED fixed

\* the line of the arguments, when there are any
arguments_line ==
    IF arguments # <<>>
    THEN <<"ENV SNAPSHOT_ENTRYPOINT_ARGUMENTS=\"">> \o join(arguments, <<" ">>) \o <<"\"\n">>
    ELSE <<>>

AppendArguments ==
    /\ pc = "arguments"
    /\ dockerfile' = dockerfile \o arguments_line
    /\ pc' = "write"
    /\ UNCHANGED <<input_file_size, todo, arguments, files, has_file, truncate, written>>
    /\ UNCHANGED fixed

WriteDockerfile ==
    /\ pc = "write"
    /\ written' = Some(dockerfile)
    /\ pc' = "written"
    /\ UNCHANGED <<input_file_size, todo, arguments, files, has_file, truncate, dockerfile>>
    /\ UNCHANGED fixed

Next ==
    \/ ParseArgs
    \/ ClassifyArgument
    \/ MakeTruncate
    \/ RenderDockerfile
    \/ AppendFunction
    \/ AppendImgType
    \/ AppendArguments
    \/ WriteDockerfile

(***************************************************************************)
(* The command lines and file systems the runs start from                  *)
(***************************************************************************)

\* the most tokens an argument string is made of
MaxTokens == 3

\* the tokens: two words that name nothing, the marker, a file of the working
\* directory by its relative and by its absolute path, a device, the root,
\* the empty token
Words ==
    { <<"a">>, <<"b">>, INPUT_MARKER, <<"f">>, <<"/", "c", "/", "f">>,
      <<"/", "d", "e", "v", "/", "n">>, <<"/">>, <<>> }

\* the argument strings: up to MaxTokens words, a space between two
ArgumentStrings ==
    { join(ws, <<" ">>) : ws \in UNION { [1..n -> Words] : n \in 1..MaxTokens } }

\* the entries every file system has: the working directory and the device
BaseFiles == { cwd, << <<"d", "e", "v">>, <<"n">> >> }

\* the entries a file system may have besides: ./f and ./@@
OptionalFiles == { cwd \o << <<"f">> >>, cwd \o <<INPUT_MARKER>> }

FileSystems == { BaseFiles \cup o : o \in SUBSET OptionalFiles }

\* main has not started: its locals are empty, no earlier run left a directory
Fresh ==
    /\ pc = "parse"
    /\ input_file_size = None
    /\ todo = <<>>
    /\ arguments = <<>>
    /\ files = <<>>
    /\ has_file = FALSE
    /\ truncate = <<>>
    /\ dockerfile = <<>>
    /\ written = None
    /\ outdir = 0
    /\ dense = 0
    /\ sparse = <<>>
    /\ new_dir = 0
    /\ run = 1

\* every argument string, over every file system; the other options plain
Init ==
    /\ Fresh
    /\ binary = <<"/", "b", "/", "t">>
    /\ function = None
    /\ image_type = None
    /\ libfuzzer = FALSE
    /\ packages = None
    /\ size_arg \in { None, Some(<<"2", "k">>) }
    /\ curr_arguments \in { None } \cup { Some(a) : a \in ArgumentStrings }
    /\ fs \in FileSystems

Spec == Init /\ [][Next]_vars

\* the command lines of the rendering: options present and absent, values
\* that spell a marker of the template, a staged file and the marker
InitRender ==
    /\ Fresh
    /\ binary \in { <<"/", "b", "/", "t">>, <<"t">>, <<"/", "b", "/", "$FILES$">> }
    /\ function \in { None, Some(<<"g">>), Some(<<"main">>) }
    /\ image_type \in { None, Some("Disk"), Some("Initramfs") }
    /\ libfuzzer \in BOOLEAN
    /\ packages \in { None, Some(<< <<"p">> >>), Some(<< <<"p">>, <<"q">> >>),
                      Some(<< <<"$TRUNCATE$">> >>), Some(<< <<"$BINARY$">> >>) }
    /\ size_arg \in { None, Some(<<"7">>) }
    /\ curr_arguments \in { None, Some(INPUT_MARKER), Some(<<"f">>),
                            Some(<<"a", " ", "f", " ", "@", "@">>) }
    /\ fs = BaseFiles \cup { cwd \o << <<"f">> >> }

SpecRender == InitRender /\ [][Next]_vars

\* the longest run of signs and digits tried in front of a unit letter
MaxSizeLen == 3

\* what a size text is made of in front of its last characters
SizeAlphabet == { "0", "1", "9", "-", ".", "+" }

\* the numbers next to 2^64, 2^54, 2^44 and 2^34, where a product stops
\* fitting 64 bits, some with leading zeros, and two numbers far beyond
BoundaryNumbers ==
    { <<"1", "8", "4", "4", "6", "7", "4", "4", "0", "7", "3", "7", "0", "9", "5", "5", "1", "6", "1", "5">>,
      <<"1", "8", "4", "4", "6", "7", "4", "4", "0", "7", "3", "7", "0", "9", "5", "5", "1", "6", "1", "6">>,
      <<"1", "8", "0", "1", "4", "3", "9", "8", "5", "0", "9", "4", "8", "1", "9", "8", "3">>,
      <<"1", "8", "0", "1", "4", "3", "9", "8", "5", "0", "9", "4", "8", "1", "9", "8", "4">>,
      <<"1", "7", "5", "9", "2", "1", "8", "6", "0", "4", "4", "4", "1", "5">>,
      <<"1", "7", "5", "9", "2", "1", "8", "6", "0", "4", "4", "4", "1", "6">>,
      <<"1", "7", "1", "7", "9", "8", "6", "9", "1", "8", "3">>,
      <<"1", "7", "1", "7", "9", "8", "6", "9", "1", "8", "4">>,
      <<"0", "0", "1", "8", "4", "4", "6", "7", "4", "4", "0", "7", "3", "7", "0", "9", "5", "5", "1", "6", "1", "5">>,
      <<"0", "1", "8", "0", "1", "4", "3", "9", "8", "5", "0", "9", "4", "8", "1", "9", "8", "4">>,
      <<"9", "9", "9", "9", "9", "9", "9", "9", "9", "9", "9", "9", "9", "9", "9", "9", "9", "9", "9", "9">>,
      <<"1", "0", "0", "0", "0", "0", "0", "0", "0", "0", "0", "0", "0", "0", "0", "0", "0", "0", "0", "0", "0", "0", "0", "0", "0">> }

\* the ends of a size text: none, the six unit letters, other letters
SizeTails ==
    { <<>>, <<"k">>, <<"K">>, <<"m">>, <<"M">>, <<"g">>, <<"G">>, <<"t">>, <<"b">>,
      <<"k", "k">> }

SizeTexts ==
    { b \o t : b \in UNION { [1..n -> SizeAlphabet] : n \in 0..MaxSizeLen }
                     \cup BoundaryNumbers,
               t \in SizeTails }

\* the command lines of the size parsing: every size text, the marker as
\* the one argument, so that the size is used
InitSize ==
    /\ Fresh
    /\ binary = <<"/", "b", "/", "t">>
    /\ function = None
    /\ image_type = None
    /\ libfuzzer = FALSE
    /\ packages = None
    /\ size_arg \in { Some(t) : t \in SizeTexts }
    /\ curr_arguments = Some(INPUT_MARKER)
    /\ fs = BaseFiles

SpecSize == InitSize /\ [][Next]_vars

(***************************************************************************)
(* main, from the output directory on, run after run. A directory is known *)
(* by an id: 0 for the snapchange_<name> there at the start, -n for the    *)
(* snapchange_<name>.old<n> there at the start, r for the snapchange_<name>*)
(* the r-th run creates. The .old<n> of the start are old1 .. old<dense>   *)
(* and those of sparse; a rename enters its target into sparse.            *)
(***************************************************************************)

\* the end of the range of the loop, 64 * 1024
OLD_LIMIT == 64 * 1024

\* the directory at snapchange_<name>.old<n>, if there is one
old_dir(n) ==
    IF n \in DOMAIN sparse THEN Some(sparse[n])
    ELSE IF n >= 1 /\ n <= dense THEN Some(0 - n)
    ELSE None

\* the loop over count: new_dir ends as the first .old<count> that does not
\* exist, and as the last one of the range when all of them exist
search_new_dir ==
    IF \E n \in 1..(OLD_LIMIT - 1) : old_dir(n) = None
    THEN CHOOSE n \in 1..(OLD_LIMIT - 1) :
            old_dir(n) = None /\ \A m \in 1..(n - 1) : old_dir(m) # None
    ELSE OLD_LIMIT - 1

\* the directories the pipeline before leaves alone
dirs == <<outdir, dense, sparse>>

\* the command line and the locals of the first part of main
first_part == <<binary, function, image_type, libfuzzer, packages, size_arg,
                input_file_size, curr_arguments, fs, todo, arguments, files,
                has_file, truncate, dockerfile, written>>

\* the output directory exists: look for a name to move it to
SearchNewDir ==
    /\ pc = "outdir"
    /\ outdir # None
    /\ new_dir' = search_new_dir
    /\ pc' = "move"
    /\ UNCHANGED <<dirs, run, first_part>>

\* the check after the loop without the test
too_many_old_dirs_unchecked == FALSE

\* the name the loop ended on exists
too_many_old_dirs == old_dir(new_dir) # None

\* panic when the loop found no name, else rename the output directory
MoveOutdir ==
    /\ pc = "move"
    /\ IF too_many_old_dirs THEN
           /\ pc' = "panicked"
           /\ UNCHANGED dirs
       ELSE
           /\ sparse' = [n \in DOMAIN sparse \cup {new_dir} |->
                           IF n = new_dir THEN unwrap(outdir) ELSE sparse[n]]
           /\ outdir' = None
           /\ pc' = "create"
           /\ UNCHANGED dense
    /\ UNCHANGED <<new_dir, run, first_part>>

\* create_dir_all and the files of the project: a new directory, unless one
\* is there
CreateOutdir ==
    /\ pc \in {"outdir", "create"}
    /\ pc = "outdir" => outdir = None
    /\ outdir' = (IF outdir = None THEN Some(run) ELSE outdir)
    /\ pc' = "created"
    /\ UNCHANGED <<dense, sparse, new_dir, run, first_part>>

\* the most runs of the program
MaxRuns == 3

\* the program is started again, after a run that ended or panicked
NewRun ==
    /\ pc \in {"created", "panicked"}
    /\ run < MaxRuns
    /\ run' = run + 1
    /\ new_dir' = 0
    /\ pc' = "outdir"
    /\ UNCHANGED <<dirs, first_part>>

NextRotate ==
    \/ SearchNewDir
    \/ MoveOutdir
    \/ CreateOutdir
    \/ NewRun

\* how far from the ends of the range the block old1 .. old<dense> ends
MaxOld == 2

\* the directories at the start: no output directory or one, a block
\* old1 .. old<dense> that is short or reaches up to the end of the range,
\* and up to two more directories behind a gap
InitRotate ==
    /\ pc = "outdir"
    /\ binary = <<"/", "b", "/", "t">>
    /\ function = None
    /\ image_type = None
    /\ libfuzzer = FALSE
    /\ packages = None
    /\ size_arg = None
    /\ input_file_size = None
    /\ curr_arguments = None
    /\ fs = BaseFiles
    /\ todo = <<>>
    /\ arguments = <<>>
    /\ files = <<>>
    /\ has_file = FALSE
    /\ truncate = <<>>
    /\ dockerfile = <<>>
    /\ written = None
    /\ new_dir = 0
    /\ run = 1
    /\ outdir \in { None, Some(0) }
    /\ dense \in (0..MaxOld) \cup ((OLD_LIMIT - 1 - MaxOld)..(OLD_LIMIT - 1))
    /\ \E extra \in SUBSET { dense + 2, dense + 3 } :
          sparse = [n \in extra |-> 0 - n]

SpecRotate == InitRotate /\ [][NextRotate]_vars

(***************************************************************************)
(* What the properties read off the command line, on their own terms: the  *)
(* tokens are the stretches of the argument string between its spaces.     *)
(***************************************************************************)

ArgText == IF curr_arguments = None THEN <<>> ELSE unwrap(curr_arguments)

NumSpaces == Cardinality({ k \in 1..Len(ArgText) : ArgText[k] = " " })

NumTokens == IF curr_arguments = None THEN 0 ELSE NumSpaces + 1

\* the position of the n-th space; 0 before the text, Len + 1 behind it
SpaceAt(n) ==
    IF n = 0 THEN 0
    ELSE IF n > NumSpaces THEN Len(ArgText) + 1
    ELSE CHOOSE k \in 1..Len(ArgText) :
            /\ ArgText[k] = " "
            /\ Cardinality({ j \in 1..k : ArgText[j] = " " }) = n

TokenAt(i) == SubSeq(ArgText, SpaceAt(i - 1) + 1, SpaceAt(i) - 1)

\* the token names something that exists
NamesFile(tok) == absolute(tok) # None /\ exists(unwrap(absolute(tok)))

\* the token starts with /dev
UnderDev(tok) ==
    Len(tok) >= 4 /\ tok[1] = "/" /\ tok[2] = "d" /\ tok[3] = "e" /\ tok[4] = "v"

\* the token is to be staged
StagedToken(tok) == NamesFile(tok) /\ ~UnderDev(tok)

\* what follows the last "/" of the token
BaseName(tok) ==
    LET slashes == { k \in 1..Len(tok) : tok[k] = "/" }
        last    == IF slashes = {} THEN 0
                   ELSE CHOOSE k \in slashes : \A j \in slashes : j <= k
    IN  SubSeq(tok, last + 1, Len(tok))

\* the absolute path of the token, as text
FullPath(tok) == IF tok[1] = "/" THEN tok ELSE <<"/", "c", "/">> \o tok

\* the argument the token becomes
Rewritten(tok) ==
    IF StagedToken(tok) THEN <<"/opt/">> \o BaseName(tok)
    ELSE IF tok = <<"@", "@">> THEN <<"/opt/truncated_input_file">>
    ELSE tok

\* the copy instruction of a staged token
CopyOf(tok) == <<"COPY ", "\"">> \o FullPath(tok) \o <<"\"", " /opt">>

\* sub occurs in s as a contiguous stretch
Occurs(sub, s) ==
    \E k \in 0..(Len(s) - Len(sub)) : SubSeq(s, k + 1, k + Len(sub)) = sub

\* s ends with sub
EndsWith(s, sub) ==
    Len(s) >= Len(sub) /\ SubSeq(s, Len(s) - Len(sub) + 1, Len(s)) = sub

\* the number of places of s that hold the unit u
CountOf(u, s) == Cardinality({ k \in 1..Len(s) : s[k] = u })

\* the loop is running or has run to its end
Classifying == { "classify", "render", "function", "imgtype", "arguments", "write", "written" }

\* the Dockerfile has been rendered from the template
Rendered == { "function", "imgtype", "arguments", "write", "written" }

\* C1: the arguments follow the tokens of the argument string: the entries
\* made and the tokens still to visit add up to the number of tokens, and
\* the i-th entry is the rewrite of the i-th token (a literal unchanged, the
\* marker /opt/truncated_input_file, a staged file /opt/<base name>).
C1_ArgumentsFollowTokens ==
    pc \in Classifying =>
        /\ Len(arguments) + Len(todo) = NumTokens
        /\ pc # "classify" => Len(arguments) = NumTokens
        /\ \A i \in 1..Len(arguments) : arguments[i] = Rewritten(TokenAt(i))

\* "a @@ b" has become [a, /opt/truncated_input_file, b]
C1_Witness ==
    /\ pc = "written"
    /\ curr_arguments = Some(<<"a", " ", "@", "@", " ", "b">>)
    /\ arguments = << <<"a">>, <<"/opt/truncated_input_file">>, <<"b">> >>

\* some token is classified as the placeholder: it is the marker, and the
\* marker names no file
PlaceholderSeen ==
    \E i \in 1..NumTokens : TokenAt(i) = <<"@", "@">> /\ ~StagedToken(TokenAt(i))

(***************************************************************************)
(* Decimal arithmetic on digit texts, for what a size text stands for      *)
(***************************************************************************)

DigitValue(c) == CHOOSE d \in 0..9 : DIGITS[d + 1] = c

IsDecimal(d) == d # <<>> /\ \A i \in 1..Len(d) : \E v \in 1..10 : DIGITS[v] = d[i]

RECURSIVE Canonical(_)
\* the digit text without its leading zeros
Canonical(d) == IF Len(d) > 1 /\ d[1] = "0" THEN Canonical(Tail(d)) ELSE d

RECURSIVE DigitsLsf(_)
\* the digits of an integer, the least significant first; none for 0
DigitsLsf(n) == IF n = 0 THEN <<>> ELSE <<DIGITS[(n % 10) + 1]>> \o DigitsLsf(n \div 10)

RECURSIVE TimesLsf(_, _, _)
\* digits (least significant first) times m plus carry
TimesLsf(d, m, carry) ==
    IF d = <<>> THEN DigitsLsf(carry)
    ELSE LET t == DigitValue(Head(d)) * m + carry
         IN  <<DIGITS[(t % 10) + 1]>> \o TimesLsf(Tail(d), m, t \div 10)

\* the digit text of d * 1024
Times1024(d) == Canonical(reverse(TimesLsf(reverse(d), 1024, 0)))

RECURSIVE TimesPow(_, _)
\* the digit text of d * 1024^k
TimesPow(d, k) == IF k = 0 THEN Canonical(d) ELSE TimesPow(Times1024(d), k - 1)

\* a < b, for two digit texts without leading zeros
DecLess(a, b) ==
    \/ Len(a) < Len(b)
    \/ /\ Len(a) = Len(b)
       /\ \E i \in 1..Len(a) :
            /\ DigitValue(a[i]) < DigitValue(b[i])
            /\ \A j \in 1..(i - 1) : a[j] = b[j]

\* 2^64, in decimal
TWO_POW_64 ==
    <<"1", "8", "4", "4", "6", "7", "4", "4", "0", "7", "3", "7", "0", "9", "5", "5",
      "1", "6", "1", "6">>

\* the power of 1024 the last character of a size text asks for
SuffixPower(t) ==
    IF t = <<>> THEN 0
    ELSE IF t[Len(t)] \in {"k", "K"} THEN 1
    ELSE IF t[Len(t)] \in {"m", "M"} THEN 2
    ELSE IF t[Len(t)] \in {"g", "G"} THEN 3
    ELSE 0

\* the size text without its unit letter
SizeDigits(t) == IF SuffixPower(t) > 0 THEN SubSeq(t, 1, Len(t) - 1) ELSE t

\* the size text is a decimal number with an optional unit letter
WellFormedSize(t) == IsDecimal(SizeDigits(t))

\* the digit text of what a well-formed size text stands for
SizeValue(t) == TimesPow(SizeDigits(t), SuffixPower(t))

\* the truncate line the command line asks for
Directive ==
    <<"RUN truncate -s ">>
    \o (IF size_arg = None THEN <<"3", "2", "7", "6", "8">> ELSE SizeValue(unwrap(size_arg)))
    \o <<" ", "/opt/truncated_input_file">>

\* C2: the truncate line is in the rendered Dockerfile exactly when some
\* token was classified as the placeholder; it then carries the size given
\* on the command line, 32768 when none was given; otherwise the line is
\* the empty string, whatever size was given.
C2_TruncateIffPlaceholder ==
    /\ pc \in Rendered \cup {"render"} =>
           truncate = (IF PlaceholderSeen THEN Directive ELSE <<>>)
    /\ pc \in Rendered =>
           IF PlaceholderSeen
           THEN Occurs(<<" /opt/\n">> \o Directive \o <<"\n">>, dockerfile)
           ELSE /\ CountOf("RUN truncate -s ", dockerfile) = 0
                /\ Occurs(<<" /opt/\n", "\n">>, dockerfile)

\* the marker was an argument, a size of 2k was given, and the written
\* Dockerfile asks for 2048 bytes
C2_Witness ==
    /\ pc = "written"
    /\ size_arg = Some(<<"2", "k">>)
    /\ PlaceholderSeen
    /\ Occurs(<<"RUN truncate -s ", "2", "0", "4", "8", " ", "/opt/truncated_input_file">>,
              unwrap(written))

\* the file ./@@ exists
MarkerFileExists == StagedToken(<<"@", "@">>)

\* C3: the test for an existing file comes before the test for the marker:
\* where ./@@ exists, a token @@ is staged (a copy instruction is recorded,
\* the argument is /opt/@@) and has_file stays unset; only where it does not
\* exist is the token the placeholder, and has_file is set.
C3_FileBeforeMarker ==
    pc \in Classifying =>
        LET seen == { i \in 1..Len(arguments) : TokenAt(i) = <<"@", "@">> }
        IN  /\ has_file <=> (seen # {} /\ ~MarkerFileExists)
            /\ \A i \in seen :
                 IF MarkerFileExists
                 THEN /\ arguments[i] = <<"/opt/", "@", "@">>
                      /\ \E k \in 1..Len(files) : files[k] = CopyOf(<<"@", "@">>)
                 ELSE arguments[i] = <<"/opt/truncated_input_file">>
            /\ (MarkerFileExists /\ pc \in Rendered \cup {"render"}) => truncate = <<>>

\* ./@@ exists, @@ was an argument, and the run ended without a truncate line
C3_Witness ==
    /\ pc = "written"
    /\ MarkerFileExists
    /\ \E i \in 1..NumTokens : TokenAt(i) = <<"@", "@">>
    /\ ~has_file
    /\ CountOf("RUN truncate -s ", unwrap(written)) = 0
    /\ \E i \in 1..Len(arguments) : arguments[i] = <<"/opt/", "@", "@">>

\* C4: the tokens that name an existing file and do not start with /dev are
\* the staged ones: each adds one copy instruction, from its absolute path
\* to /opt, in the order of the tokens, and becomes /opt/<base name>; the
\* copy instructions are as many as these tokens; a token that names
\* nothing and is not the marker is passed on unchanged.
C4_StagedFiles ==
    pc \in Classifying =>
        LET staged == { i \in 1..Len(arguments) : StagedToken(TokenAt(i)) }
        IN  /\ Len(files) = Cardinality(staged)
            /\ \A i \in staged :
                 /\ arguments[i] = <<"/opt/">> \o BaseName(TokenAt(i))
                 /\ files[Cardinality({ j \in staged : j <= i })] = CopyOf(TokenAt(i))
            /\ \A i \in 1..Len(arguments) :
                 (~NamesFile(TokenAt(i)) /\ TokenAt(i) # <<"@", "@">>)
                     => arguments[i] = TokenAt(i)

\* "a /c/f", with /c/f on disk: one copy instruction, the argument /opt/f,
\* and the line of the arguments reads a /opt/f
C4_Witness ==
    /\ pc = "written"
    /\ curr_arguments = Some(<<"a", " ", "/", "c", "/", "f">>)
    /\ files = << <<"COPY ", "\"", "/", "c", "/", "f", "\"", " /opt">> >>
    /\ EndsWith(unwrap(written),
                <<"ENV SNAPSHOT_ENTRYPOINT_ARGUMENTS=\"", "a", " ", "/opt/", "f", "\"\n">>)

\* C8: the line of the arguments is appended exactly when the list of
\* arguments is not empty, and carries the arguments joined by single
\* spaces in one pair of quotes; without arguments no line is appended; a
\* line with an empty value is never written.
C8_NoEmptyDeclaration ==
    pc = "written" =>
        /\ (CountOf("ENV SNAPSHOT_ENTRYPOINT_ARGUMENTS=\"", unwrap(written)) = 1)
               <=> (arguments # <<>>)
        /\ arguments = <<>> =>
               CountOf("ENV SNAPSHOT_ENTRYPOINT_ARGUMENTS=\"", unwrap(written)) = 0
        /\ arguments # <<>> =>
               EndsWith(unwrap(written),
                        <<"ENV SNAPSHOT_ENTRYPOINT_ARGUMENTS=\"">>
                        \o join(arguments, <<" ">>) \o <<"\"\n">>)
        /\ ~Occurs(<<"ENV SNAPSHOT_ENTRYPOINT_ARGUMENTS=\"", "\"\n">>, unwrap(written))

\* the size text of the command line
SizeText == unwrap(size_arg)

\* the size text is a "+" in front of a decimal number, which str::parse
\* takes for the number; none of the cases the properties speak of
PlusSigned(t) ==
    LET d == SizeDigits(t) IN d # <<>> /\ d[1] = "+" /\ IsDecimal(Tail(d))

\* what the size text stands for fits 64 bits
InRange(t) == DecLess(SizeValue(t), TWO_POW_64)

\* the size was parsed, and the decimal digits of the u64 are those of v
ParsedAs(v) ==
    /\ pc \notin {"parse", "usage_error", "panicked"}
    /\ input_file_size # None
    /\ to_string(unwrap(input_file_size)) = v

\* C5: a decimal number followed by nothing, by k or K, by m or M, by g or G
\* parses to the number times 1, 1024, 1024^2, 1024^3 (where that fits 64
\* bits; C6 speaks of the rest); the empty text, a text that is no number,
\* a lone unit letter, a number with a sign "-" or a ".", and a number with
\* another letter behind it are errors of the parse.
C5_SizeGrammar ==
    (pc # "parse" /\ size_arg # None) =>
        /\ (WellFormedSize(SizeText) /\ InRange(SizeText)) => ParsedAs(SizeValue(SizeText))
        /\ (~WellFormedSize(SizeText) /\ ~PlusSigned(SizeText)) =>
               (pc = "usage_error" /\ input_file_size = None)

\* 1M has been parsed to 1048576
C5_Witness ==
    /\ size_arg = Some(<<"1", "M">>)
    /\ ParsedAs(<<"1", "0", "4", "8", "5", "7", "6">>)

\* C6: a number whose product with the factor of its unit is 2^64 or more
\* makes the parse fail, by an error or by a panic, and no size is kept (no
\* value modulo 2^64, none cut short); where the product is below 2^64 the
\* parse succeeds with exactly the product.
C6_OverflowFails ==
    (pc # "parse" /\ size_arg # None /\ WellFormedSize(SizeText)) =>
        IF InRange(SizeText)
        THEN ParsedAs(SizeValue(SizeText))
        ELSE pc \in {"usage_error", "panicked"} /\ input_file_size = None

\* 18014398509481984k, which is 2^54 * 1024 = 2^64, has made the parse panic
C6_Witness ==
    /\ pc = "panicked"
    /\ size_arg = Some(<<"1", "8", "0", "1", "4", "3", "9", "8", "5", "0", "9", "4",
                         "8", "1", "9", "8", "4", "k">>)
    /\ ~InRange(SizeText)
    /\ input_file_size = None

\* the five markers of the template
MARKERS == << "$BINARY$", "$BINARYNAME$", "$PACKAGES$", "$TRUNCATE$", "$FILES$" >>

\* the value of each marker, in the order of MARKERS
MarkerValues ==
    << binary,
       binary_name,
       join(IF packages = None THEN <<>> ELSE unwrap(packages), <<" ">>),
       truncate,
       join(files, <<"\n">>) >>

\* the template with every marker replaced by its own value, in one pass
OnePass ==
    Concat([i \in 1..Len(DOCKERFILE) |->
              IF \E m \in 1..5 : MARKERS[m] = DOCKERFILE[i]
              THEN MarkerValues[CHOOSE m \in 1..5 : MARKERS[m] = DOCKERFILE[i]]
              ELSE <<DOCKERFILE[i]>>])

RECURSIVE InOrder(_, _, _)
\* the template after the replacements order[k], order[k + 1], ...
InOrder(text, order, k) ==
    IF k > Len(order) THEN text
    ELSE InOrder(replace(text, MARKERS[order[k]], MarkerValues[order[k]]), order, k + 1)

\* the orders the five replacements can be made in
Orders == { o \in [1..5 -> 1..5] : \A i, j \in 1..5 : o[i] = o[j] => i = j }

\* C7: whatever the binary path, the packages, the truncate line and the
\* copy instructions are, the rendered Dockerfile is the template with each
\* of the five markers replaced once by its own value, no marker is left in
\* it, and the replacements made in any order give the same text.
C7_TotalSubstitution ==
    pc = "function" =>
        /\ dockerfile = OnePass
        /\ \A k \in 1..Len(dockerfile) : \A m \in 1..5 : dockerfile[k] # MARKERS[m]
        /\ \A o \in Orders : InOrder(DOCKERFILE, o, 1) = dockerfile

\* the function asked for on the command line
WantedFunction ==
    IF function # None THEN unwrap(function)
    ELSE IF libfuzzer THEN <<"LLVMFuzzerTestOneInput">>
    ELSE <<"main">>

FunctionLine == <<"ENV SNAPSHOT_FUNCTION=">> \o WantedFunction \o <<"\n">>

ImgTypeLine ==
    <<"ENV SNAPSHOT_IMGTYPE=">>
    \o (IF image_type = Some("Disk") THEN <<"d", "i", "s", "k">>
        ELSE <<"i", "n", "i", "t", "r", "a", "m", "f", "s">>)
    \o <<"\n">>

ArgumentsLine ==
    IF NumTokens = 0 THEN <<>>
    ELSE <<"ENV SNAPSHOT_ENTRYPOINT_ARGUMENTS=\"">> \o join(arguments, <<" ">>) \o <<"\"\n">>

\* C9: the SNAPSHOT_FUNCTION line binds the function given on the command
\* line, with or without --libfuzzer; without one it binds
\* LLVMFuzzerTestOneInput under --libfuzzer and main otherwise; there is
\* one such line, and it comes before the line of the image type, which
\* comes before the line of the arguments, if there is one.
C9_BreakFunction ==
    /\ pc \in {"parse", "classify", "render", "function"} =>
           CountOf("ENV SNAPSHOT_FUNCTION=", dockerfile) = 0
    /\ pc \in {"imgtype", "arguments", "write", "written"} =>
           CountOf("ENV SNAPSHOT_FUNCTION=", dockerfile) = 1
    /\ pc = "imgtype" => EndsWith(dockerfile, FunctionLine)
    /\ pc = "arguments" => EndsWith(dockerfile, FunctionLine \o ImgTypeLine)
    /\ pc = "written" =>
           EndsWith(unwrap(written), FunctionLine \o ImgTypeLine \o ArgumentsLine)

\* -f g together with --libfuzzer: the written Dockerfile binds g
C9_Witness ==
    /\ pc = "written"
    /\ function = Some(<<"g">>)
    /\ libfuzzer
    /\ Occurs(<<"ENV SNAPSHOT_FUNCTION=", "g", "\n", "ENV SNAPSHOT_IMGTYPE=">>,
              unwrap(written))

\* the directory with this id is somewhere, in a state with this output
\* directory and these renamed directories
Kept(id, od, sp) ==
    \/ od = Some(id)
    \/ \E n \in DOMAIN sp : sp[n] = id
    \/ id < 0 /\ 0 - id <= dense /\ (0 - id) \notin DOMAIN sp

\* the ids of the directories a step can touch: the output directory, the
\* directories of sparse, the directories at the names sparse gains
Touched ==
    { od[1] : od \in { o \in {outdir} : o # None } }
    \cup { sparse[n] : n \in DOMAIN sparse }
    \cup { 0 - n : n \in DOMAIN sparse' \ DOMAIN sparse }

\* C10: no step of any run deletes or overwrites a directory that is there:
\* every directory stays, under its name or a new one; the output
\* directory is renamed only to .old<n> for the least n of 1..65535 at which
\* nothing exists; and when something exists at every such n the run panics
\* and neither renames nor creates anything.
C10_NeverOverwritten ==
    [][ /\ \A id \in Touched : Kept(id, outdir, sparse) => Kept(id, outdir', sparse')
        /\ (outdir # None /\ outdir' # outdir) =>
              \E n \in 1..65535 :
                 /\ old_dir(n) = None
                 /\ \A m \in 1..(n - 1) : old_dir(m) # None
                 /\ sparse' = [k \in DOMAIN sparse \cup {n} |->
                                 IF k = n THEN unwrap(outdir) ELSE sparse[k]]
                 /\ outdir' = None
        /\ (pc = "move" /\ \A n \in 1..65535 : old_dir(n) # None) =>
              (pc' = "panicked" /\ outdir' = outdir /\ sparse' = sparse)
      ]_vars

\* old1 .. old65534 were there, the first run moved the output directory to
\* old65535, and the second run, finding every name taken, has panicked with
\* both output directories still there
C10_Witness ==
    /\ pc = "panicked"
    /\ run = 2
    /\ dense = 65534
    /\ old_dir(65535) = Some(0)
    /\ outdir = Some(1)

====
